---------------------------- MODULE Spec2Model ----------------------------
(***************************************************************************)
(* Prayer alarm system (raspberry_pi/): the audio player's priority queue  *)
(* and player threads (audio_player.py), the WebSocket / HTTP callers that *)
(* enqueue and stop audio (websocket_server.py, app.py), the prayer        *)
(* scheduler's once-per-second check (prayer_scheduler.py), the watchdog   *)
(* restart (app.py), the alarm scheduler's one-time alarm check and the   *)
(* alarm scheduler's start / stop / schedule_alarm / remove_alarm calls    *)
(* (alarm_scheduler.py).                                                   *)
(*                                                                         *)
(* Modelling conventions                                                   *)
(*  - Wall-clock time `now` is counted in whole seconds.                   *)
(*  - time.time() as used for queue timestamps is the counter `clock`; two *)
(*    put() calls never read the same value (the calls are microseconds    *)
(*    apart at least and the clock is not stepped backwards).              *)
(*  - pygame.mixer.music is one process-wide channel: `mixer` holds the    *)
(*    request that is sounding, or NoItem when get_busy() is false.        *)
(*  - A block executed under a threading.Lock is one step, unless it       *)
(*    contains time.sleep() and another thread can observe the difference. *)
(*  - Variables whose names start with h_ are ghost (history) variables:   *)
(*    they record what happened and never influence the program.           *)
(***************************************************************************)
EXTENDS Integers, FiniteSets, Sequences, TLC

(***************************************************************************)
(* Bounds of the model                                                     *)
(***************************************************************************)
\* number of put() calls on the audio queues in one behaviour
MaxClock == 2
\* number of watchdog restarts (each creates a new AudioPlayer and a new
\* PrayerScheduler) in one behaviour
MaxRestarts == 1
\* number of seconds the wall clock advances in one behaviour
Horizon == 5

(***************************************************************************)
(* Program constants                                                       *)
(***************************************************************************)
PRIORITY_ADHAN == 1
PRIORITY_PRE_ADHAN == 2
PRIORITY_TAHRIM == 3
PRIORITY_ALARM == 4
PRIORITY_PUSH_TO_TALK == 5
PRIORITY_MURATTAL == 6

\* Python's None for current_priority / current_audio / last_murattal
None == "None"
NoPriority == 0 - 1

\* AudioPlayer instances: the one app.py creates at import and one more for
\* every force_restart_scheduler()
Insts == 1 .. (1 + MaxRestarts)

\* player threads of an instance: the one the constructor starts and the
\* one a further start_player_thread() call starts
PThreads == Insts \X {1, 2}

\* the "priority" a play_sound / play_tts WebSocket message may carry: any
\* JSON number; the default when the key is absent is PRIORITY_ALARM
ClientPriorities == {0, PRIORITY_ALARM, 7}

Kinds == {"file", "tts", "bytes"}

NoItem == [priority |-> NoPriority, time |-> 0, kind |-> "none", data |-> None]

VARIABLES
    \* ---- AudioPlayer, per instance (audio_player.py) ----
    constructed,       \* the instance exists
    playing,           \* self.playing
    current_priority,  \* self.current_priority
    current_audio,     \* self.current_audio
    last_murattal,     \* self.last_murattal
    audio_queue,       \* self.audio_queue: set of (priority, time, (kind, data))
    \* ---- process-wide ----
    mixer,             \* pygame.mixer.music: the request sounding, or NoItem
    clock,             \* time.time() as read by the play_* methods
    \* ---- player threads ----
    pc,                \* position of each player thread in _process_queue
    item,              \* the tuple the thread got from the queue
    \* ---- database and flag files ----
    now,               \* datetime.now(), in seconds
    enabled,           \* prayer_times.enabled, per prayer
    alarm_enabled,     \* alarms.enabled, per one-time alarm
    flags,             \* the "<name>_<date><suffix>.played" files in flags/
    \* ---- schedulers ----
    sched_running,     \* PrayerScheduler.running, per instance
    sched_lock,        \* PrayerScheduler.lock, per instance: holder or None
    nextRun,           \* next_run of the jobs in the shared `schedule`
    rpc,               \* position of each scheduler thread
    rctx,              \* locals of the job a scheduler thread is running
    restarts,          \* number of force_restart_scheduler() calls so far
    \* ---- AlarmScheduler and its callers (alarm_scheduler.py) ----
    alarm_repeating,   \* alarms.repeating, per alarm
    alarm_days,        \* alarms.days, per alarm: the selected weekdays
    as_running,        \* AlarmScheduler.running
    alarm_lock,        \* AlarmScheduler.lock: holder or Unlocked
    scheduled_jobs,    \* AlarmScheduler.scheduled_jobs: its keys <<id, day>>
    alarm_jobs,        \* the alarm jobs in the shared `schedule`
    cpc,               \* position of each calling thread
    cctx,              \* the call a calling thread is in
    \* ---- ghost ----
    h_player,          \* history of the player (see HPlayer0)
    h_sched            \* history of the schedulers (see HSched0)

playerVars == <<constructed, playing, current_priority, current_audio,
                last_murattal, audio_queue, mixer, clock, pc, item, h_player>>

apiVars == <<alarm_repeating, alarm_days, as_running, alarm_lock,
             scheduled_jobs, alarm_jobs, cpc, cctx>>

schedVars == <<now, enabled, alarm_enabled, flags, sched_running, sched_lock,
               nextRun, rpc, rctx, restarts, h_sched, apiVars>>

vars == <<playerVars, schedVars>>

Min2(a, b) == IF a < b THEN a ELSE b

HPlayer0 ==
    [ rival    |-> FALSE,        \* while the audio now sounding has been
                                 \* playing, a request of strictly smaller
                                 \* priority number was put on the queue of
                                 \* the player that plays it
      stopped  |-> {},           \* the players on which stop() has returned
                                 \* and no request has been enqueued since
      murReq   |-> 0,            \* play_murattal() calls
      murPlay  |-> 0,            \* murattal playbacks started
      murPhase |-> "none" ]      \* "cut": a murattal playback was cut short
                                 \* by a source of smaller priority number;
                                 \* "after": and a sound of smaller priority
                                 \* number has since been played to its end;
                                 \* back to "none" when a murattal starts

(***************************************************************************)
(* queue.PriorityQueue of tuples (priority, time.time(), (kind, data)):    *)
(* get() returns the smallest tuple in Python's tuple order.               *)
(***************************************************************************)
TupleLess(x, y) ==
    \/ x.priority < y.priority
    \/ x.priority = y.priority /\ x.time < y.time

QueueGet_lifo(q) ==
    CHOOSE x \in q : \A y \in q \ {x} :
        \/ x.priority < y.priority
        \/ x.priority = y.priority /\ x.time > y.time

QueueGet(q) == CHOOSE x \in q : \A y \in q \ {x} : TupleLess(x, y)

QueueAfterGet_peek(q) == q

QueueAfterGet(q) == q \ {QueueGet(q)}

(***************************************************************************)
(* AudioPlayer.play_* : put one tuple on the queue                         *)
(***************************************************************************)
Tuple(p, k, d) == [priority |-> p, time |-> clock + 1, kind |-> k, data |-> d]

\* player a is playing a murattal and it is sounding (ghost)
MurattalSounding(a) ==
    /\ mixer # NoItem
    /\ mixer.data = "murattal"
    /\ playing[a]
    /\ current_priority[a] = PRIORITY_MURATTAL
    /\ current_audio[a] = "murattal"

\* a request of priority p arrives at player a while audio of larger
\* priority number, played by a, is sounding (ghost)
Outranks(a, p) ==
    /\ mixer # NoItem
    /\ playing[a]
    /\ p < current_priority[a]

\* self.audio_queue.put((priority, time.time(), (kind, data)))
Put(a, p, k, d) ==
    /\ constructed[a]
    /\ clock < MaxClock
    /\ audio_queue' = [audio_queue EXCEPT ![a] = @ \cup {Tuple(p, k, d)}]
    /\ clock' = clock + 1
    /\ h_player' = [h_player EXCEPT
          !.rival = @ \/ Outranks(a, p),
          !.stopped = @ \ {a},
          !.murReq = IF p = PRIORITY_MURATTAL /\ d = "murattal"
                     THEN @ + 1 ELSE @]

play_adhan(a) ==
    /\ Put(a, PRIORITY_ADHAN, "file", "adhan")
    /\ UNCHANGED <<constructed, playing, current_priority, current_audio,
                   last_murattal, mixer, pc, item>>
    /\ UNCHANGED schedVars

play_pre_adhan(a) ==
    /\ Put(a, PRIORITY_PRE_ADHAN, "file", "pre_adhan")
    /\ UNCHANGED <<constructed, playing, current_priority, current_audio,
                   last_murattal, mixer, pc, item>>
    /\ UNCHANGED schedVars

play_tahrim(a) ==
    /\ Put(a, PRIORITY_TAHRIM, "file", "tahrim")
    /\ UNCHANGED <<constructed, playing, current_priority, current_audio,
                   last_murattal, mixer, pc, item>>
    /\ UNCHANGED schedVars

\* play_alarm(file_path=...) or play_alarm(tts_text=...)
play_alarm(a, k) ==
    /\ k \in {"file", "tts"}
    /\ Put(a, PRIORITY_ALARM, k, "alarm")
    /\ UNCHANGED <<constructed, playing, current_priority, current_audio,
                   last_murattal, mixer, pc, item>>
    /\ UNCHANGED schedVars

play_push_to_talk(a) ==
    /\ Put(a, PRIORITY_PUSH_TO_TALK, "bytes", "ptt")
    /\ UNCHANGED <<constructed, playing, current_priority, current_audio,
                   last_murattal, mixer, pc, item>>
    /\ UNCHANGED schedVars

play_murattal(a) ==
    /\ Put(a, PRIORITY_MURATTAL, "file", "murattal")
    /\ last_murattal' = [last_murattal EXCEPT ![a] = "murattal"]
    /\ UNCHANGED <<constructed, playing, current_priority, current_audio,
                   mixer, pc, item>>
    /\ UNCHANGED schedVars

\* play_file(path, priority) / play_tts(text, priority) as called for the
\* 'play_sound' and 'play_tts' WebSocket messages: the priority is the
\* client's
process_audio_message_play(a, k, p) ==
    /\ k \in {"file", "tts"}
    /\ p \in ClientPriorities
    /\ Put(a, p, k, "client")
    /\ UNCHANGED <<constructed, playing, current_priority, current_audio,
                   last_murattal, mixer, pc, item>>
    /\ UNCHANGED schedVars

(***************************************************************************)
(* AudioPlayer.stop(), called on behalf of a source of priority `by`; 0 is  *)
(* the user's own command to stop                                          *)
(***************************************************************************)
\* the queue after the "while not self.audio_queue.empty()" loop
StopQueue_keep(q) == q

StopQueue(q) == {}

\* stop() looks at self.playing only
StopActs_always(a) == TRUE

StopActs(a) == playing[a]

stop(a, by) ==
    /\ constructed[a]
    /\ IF StopActs(a)
       THEN /\ mixer' = NoItem
            /\ playing' = [playing EXCEPT ![a] = FALSE]
            /\ current_audio' = [current_audio EXCEPT ![a] = None]
            /\ current_priority' = [current_priority EXCEPT ![a] = NoPriority]
            /\ audio_queue' = [audio_queue EXCEPT ![a] = StopQueue(@)]
            /\ h_player' = [h_player EXCEPT
                  !.rival = FALSE,
                  !.stopped = @ \cup {a},
                  !.murPhase = IF /\ MurattalSounding(a)
                                  /\ 0 < by /\ by < PRIORITY_MURATTAL
                               THEN "cut" ELSE @]
       ELSE /\ h_player' = [h_player EXCEPT !.stopped = @ \cup {a}]
            /\ UNCHANGED <<mixer, playing, current_audio, current_priority,
                           audio_queue>>
    /\ UNCHANGED <<constructed, last_murattal, clock, pc, item>>

\* process_ptt_message, 'ptt_start': audio_player.stop()
ptt_start(a) == stop(a, PRIORITY_PUSH_TO_TALK) /\ UNCHANGED schedVars

\* POST /stop-audio and the 'stop_audio' WebSocket message: the user's own
\* command
stop_audio(a) == stop(a, 0) /\ UNCHANGED schedVars

(***************************************************************************)
(* AudioPlayer._process_queue, one player thread t = <<instance, k>>       *)
(***************************************************************************)
\* priority, _, (audio_type, audio_data) = self.audio_queue.get()
Get(t) ==
    /\ pc[t] = "get"
    /\ audio_queue[t[1]] # {}
    /\ item' = [item EXCEPT ![t] = QueueGet(audio_queue[t[1]])]
    /\ audio_queue' = [audio_queue EXCEPT ![t[1]] = QueueAfterGet(@)]
    /\ pc' = [pc EXCEPT ![t] = "lock"]
    /\ UNCHANGED <<constructed, playing, current_priority, current_audio,
                   last_murattal, mixer, clock, h_player>>
    /\ UNCHANGED schedVars

\* "if priority < self.current_priority"
Interrupts_never(p, cur) == FALSE

Interrupts(p, cur) == p < cur

\* the first "with self.lock:" block
Lock(t) ==
    LET a == t[1]
        p == item[t].priority
    IN
    /\ pc[t] = "lock"
    /\ IF playing[a] /\ ~Interrupts(p, current_priority[a])
       THEN \* skip this audio: task_done(); continue
            /\ pc' = [pc EXCEPT ![t] = "get"]
            /\ item' = [item EXCEPT ![t] = NoItem]
            /\ UNCHANGED <<playing, current_audio, current_priority, mixer,
                           h_player>>
       ELSE /\ IF playing[a]
               THEN \* pygame.mixer.music.stop(); time.sleep(0.5)
                    /\ mixer' = NoItem
                    /\ h_player' = [h_player EXCEPT
                          !.rival = FALSE,
                          !.murPhase =
                             IF MurattalSounding(a) THEN "cut" ELSE @]
               ELSE UNCHANGED <<mixer, h_player>>
            /\ playing' = [playing EXCEPT ![a] = TRUE]
            /\ current_audio' = [current_audio EXCEPT ![a] = item[t].data]
            /\ current_priority' = [current_priority EXCEPT ![a] = p]
            /\ pc' = [pc EXCEPT ![t] = "play"]
            /\ UNCHANGED item
    /\ UNCHANGED <<constructed, last_murattal, audio_queue, clock>>
    /\ UNCHANGED schedVars

\* _play_file_internal / _play_tts_internal / _play_bytes_internal up to
\* pygame.mixer.music.play(): ok is FALSE when the file is missing, gTTS
\* fails or the mixer cannot load the data
Play(t, ok) ==
    /\ pc[t] = "play"
    /\ IF ok
       THEN \* mixer.quit(); mixer.init(); music.load(); music.play()
            /\ mixer' = item[t]
            /\ pc' = [pc EXCEPT ![t] = "wait"]
            /\ h_player' = [h_player EXCEPT
                  !.rival = FALSE,
                  !.murPlay = IF item[t].data = "murattal"
                              THEN Min2(@ + 1, MaxClock + 1) ELSE @,
                  !.murPhase = IF item[t].data = "murattal" THEN "none" ELSE @]
       ELSE /\ pc' = [pc EXCEPT ![t] = "done"]
            /\ UNCHANGED <<mixer, h_player>>
    /\ UNCHANGED <<constructed, playing, current_priority, current_audio,
                   last_murattal, audio_queue, clock, item>>
    /\ UNCHANGED schedVars

\* "while pygame.mixer.music.get_busy(): time.sleep(0.1)" falls through
Wait(t) ==
    /\ pc[t] = "wait"
    /\ mixer = NoItem
    /\ pc' = [pc EXCEPT ![t] = "done"]
    /\ UNCHANGED <<constructed, playing, current_priority, current_audio,
                   last_murattal, audio_queue, mixer, clock, item, h_player>>
    /\ UNCHANGED schedVars

\* the second "with self.lock:" block, task_done(), time.sleep(0.1)
Done(t) ==
    LET a == t[1] IN
    /\ pc[t] = "done"
    /\ playing' = [playing EXCEPT ![a] = FALSE]
    /\ current_audio' = [current_audio EXCEPT ![a] = None]
    /\ current_priority' = [current_priority EXCEPT ![a] = NoPriority]
    /\ pc' = [pc EXCEPT ![t] = "get"]
    /\ item' = [item EXCEPT ![t] = NoItem]
    /\ UNCHANGED <<constructed, last_murattal, audio_queue, mixer, clock,
                   h_player>>
    /\ UNCHANGED schedVars

\* the audio that is sounding reaches its end (the mixer stops by itself)
MusicEnds ==
    /\ mixer # NoItem
    /\ mixer' = NoItem
    /\ h_player' = [h_player EXCEPT
          !.rival = FALSE,
          !.murPhase = IF @ = "cut" /\ mixer.priority < PRIORITY_MURATTAL
                       THEN "after" ELSE @]
    /\ UNCHANGED <<constructed, playing, current_priority, current_audio,
                   last_murattal, audio_queue, clock, pc, item>>
    /\ UNCHANGED schedVars

\* AudioPlayer.start_player_thread() called once more on a constructed player
start_player_thread(a) ==
    /\ constructed[a]
    /\ pc[<<a, 2>>] = "off"
    /\ pc' = [pc EXCEPT ![<<a, 2>>] = "get"]
    /\ UNCHANGED <<constructed, playing, current_priority, current_audio,
                   last_murattal, audio_queue, mixer, clock, item, h_player>>
    /\ UNCHANGED schedVars

(***************************************************************************)
(* Database rows and flag files                                            *)
(***************************************************************************)
PrayerNames == {"Fajr", "Dhuhr"}

\* prayer_times.time: fetch_prayer_times parses "%H:%M", so two prayer times
\* of a day are whole minutes apart
PrayerTimeOf(p) == IF p = "Fajr" THEN 700 ELSE 760

\* the one-time alarms of today
Alarms == {1, 2}

\* alarms.time
AlarmTimeOf(al) == 700 + 2 * (al - 1)

NoRun == 0 - 1

\* a threading.Lock nobody holds
Unlocked == 0 - 1

\* scheduler threads: 0 is AlarmScheduler.thread, i is the thread of the
\* i-th PrayerScheduler; the jobs of the shared `schedule` are numbered alike:
\* 0 is _check_one_time_alarms, i is _check_upcoming_prayers_safe of the
\* i-th PrayerScheduler
Runners == {0} \cup Insts

Jobs == {0} \cup Insts

NoCtx == [alarm |-> 0, todo |-> {}, higher |-> FALSE, prayer |-> None, job |-> NoRun]

HSched0 ==
    [ start |-> 0,                \* the time the schedulers were started
      lastCheck |-> NoRun,        \* `now` of the latest prayer check
      everySecond |-> TRUE,       \* from one second after the start on, a
                                  \* prayer check was made in every second
      adhanPuts |-> [p \in PrayerNames |-> 0],  \* checks that queued the adhan
      adhanAt |-> [p \in PrayerNames |-> NoRun],\* `now` of the first of them
      lateSkipped |-> {},         \* prayers for which a check ran within 30 s
                                  \* after the prayer time, found no flag and
                                  \* returned without queueing the adhan
      triggers |-> [al \in Alarms |-> 0],       \* _trigger_alarm calls
      raised |-> FALSE,           \* a _trigger_alarm call raised
      alarmPuts |-> [al \in Alarms |-> 0] ]     \* alarm requests queued

\* DatabaseWrapper.get_next_prayer_time:
\*   SELECT ... WHERE time > now AND enabled = TRUE ORDER BY time LIMIT 1
UpcomingPrayers_geq(n) == {p \in PrayerNames : enabled[p] /\ PrayerTimeOf(p) >= n - 30}

UpcomingPrayers(n) == {p \in PrayerNames : enabled[p] /\ PrayerTimeOf(p) > n}

get_next_prayer_time(n) ==
    IF UpcomingPrayers(n) = {} THEN None
    ELSE CHOOSE p \in UpcomingPrayers(n) :
            \A q \in UpcomingPrayers(n) : PrayerTimeOf(p) <= PrayerTimeOf(q)

\* "precise_window = -3 <= time_diff <= 3"
PreciseWindow_wide(d) == (0 - 30) <= d /\ d <= 30

PreciseWindow(d) == (0 - 3) <= d /\ d <= 3

\* "elif -30 <= time_diff <= 30"
AdhanWindow(d) == (0 - 30) <= d /\ d <= 30

\* "if 590 <= time_diff <= 610" with "if 598 <= time_diff <= 602" inside, and
\* "elif 290 <= time_diff <= 310" with "if 298 <= time_diff <= 302" inside
PreAdhanWindow(d, m) == 60 * m - 10 <= d /\ d <= 60 * m + 10

PreAdhanPlayWindow(d, m) == 60 * m - 2 <= d /\ d <= 60 * m + 2

\* "hasattr(next_prayer, 'pre_adhan_10_min') and next_prayer.pre_adhan_10_min"
\* (and the same for pre_adhan_5_min and tahrim_sound): _row_to_prayer_time
\* sets id, name, time, enabled, custom_sound and date_str only, so the
\* object get_next_prayer_time returns has none of these attributes
HasPreAdhanSound(p) == FALSE

\* "from websocket_server import broadcast_message" in _trigger_alarm:
\* websocket_server.py defines broadcast_audio_message and
\* broadcast_ptt_message only, so the import raises ImportError
BroadcastMessageImportable == FALSE

\* "alarm.smart_alarm" in _trigger_alarm: Alarm.__init__ and _row_to_alarm set
\* no such attribute, so reading it raises AttributeError
AlarmHasSmartAlarm == FALSE

(***************************************************************************)
(* The shared `schedule`: run_pending() runs every job whose next_run has  *)
(* come; job.run() sets next_run only after the job function has returned, *)
(* so a second thread calling run_pending() meanwhile runs the job too.    *)
(***************************************************************************)
Due(j) == nextRun[j] # NoRun /\ nextRun[j] <= now

\* job.run() after the job function returned: every(1).seconds
Rescheduled(j) == [nextRun EXCEPT ![j] = now + 1]

\* the thread is back in its "while self.running" loop
BackInLoop(r) == [rpc EXCEPT ![r] = "idle"]

(***************************************************************************)
(* PrayerScheduler._check_upcoming_prayers (through                       *)
(* _check_upcoming_prayers_safe), run by thread r for scheduler i          *)
(***************************************************************************)
\* the prayers whose time passed at most 30 seconds ago and that have no
\* ".played" flag (ghost)
LateUnplayed ==
    {p \in PrayerNames : /\ enabled[p]
                         /\ PrayerTimeOf(p) < now
                         /\ now <= PrayerTimeOf(p) + 30
                         /\ <<p, "adhan">> \notin flags}

\* from "with self.lock:" to the time.sleep(0.5) that follows
\* self.audio_player.stop(), or to the return
CheckBegin(r, i) ==
    LET p == get_next_prayer_time(now)
        d == PrayerTimeOf(p) - now
        flag == <<p, "adhan">>
    IN
    /\ rpc[r] = "idle"
    /\ Due(i)
    /\ i \in Insts
    /\ sched_lock[i] = Unlocked
    /\ IF /\ p # None
          /\ ~PreAdhanWindow(d, 10)
          /\ ~PreAdhanWindow(d, 5)
          /\ AdhanWindow(d)
          /\ (PreciseWindow(d) \/ (d < 0 /\ flag \notin flags))
          /\ flag \notin flags
       THEN \* self.audio_player.stop(); time.sleep(0.5)
            /\ stop(i, PRIORITY_ADHAN)
            /\ sched_lock' = [sched_lock EXCEPT ![i] = r]
            /\ rpc' = [rpc EXCEPT ![r] = "check_sleep"]
            /\ rctx' = [rctx EXCEPT ![r] = [NoCtx EXCEPT !.prayer = p, !.job = i]]
            /\ h_sched' = [h_sched EXCEPT !.lastCheck = now]
            /\ UNCHANGED <<flags, nextRun>>
       ELSE /\ flags' =
                 IF p = None THEN flags
                 ELSE IF PreAdhanWindow(d, 10) /\ PreAdhanPlayWindow(d, 10)
                      THEN flags \cup {<<p, "pre_adhan_10">>}
                 ELSE IF PreAdhanWindow(d, 5) /\ PreAdhanPlayWindow(d, 5)
                      THEN flags \cup {<<p, "pre_adhan_5">>}
                 ELSE flags
            /\ nextRun' = Rescheduled(i)
            /\ h_sched' = [h_sched EXCEPT
                  !.lastCheck = now,
                  !.lateSkipped = @ \cup LateUnplayed]
            /\ UNCHANGED <<playerVars, sched_lock, rpc, rctx>>
    /\ UNCHANGED <<now, enabled, alarm_enabled, sched_running, restarts>>
    /\ UNCHANGED apiVars

\* from the flag file write to the end of the check: play_adhan (when the
\* sound file exists) and play_tts(..., priority=PRIORITY_ADHAN)
CheckPlay(r, fileExists) ==
    LET i == rctx[r].job
        p == rctx[r].prayer
        adhan == [priority |-> PRIORITY_ADHAN, time |-> clock + 1,
                  kind |-> "file", data |-> "adhan"]
        tts == [priority |-> PRIORITY_ADHAN, time |-> clock + 2,
                kind |-> "tts", data |-> "adhan"]
    IN
    /\ rpc[r] = "check_sleep"
    /\ flags' = flags \cup {<<p, "adhan">>}
    /\ audio_queue' = [audio_queue EXCEPT ![i] =
          @ \cup (IF fileExists THEN {adhan, tts} ELSE {tts})]
    /\ clock' = clock + 2
    /\ sched_lock' = [sched_lock EXCEPT ![i] = Unlocked]
    /\ nextRun' = Rescheduled(i)
    /\ rpc' = BackInLoop(r)
    /\ rctx' = [rctx EXCEPT ![r] = NoCtx]
    /\ h_sched' = [h_sched EXCEPT
          !.adhanPuts[p] = Min2(@ + 1, 2),
          !.adhanAt[p] = IF @ = NoRun THEN h_sched.lastCheck ELSE @]
    /\ h_player' = [h_player EXCEPT
          !.rival = @ \/ Outranks(i, PRIORITY_ADHAN),
          !.stopped = @ \ {i}]
    /\ UNCHANGED <<constructed, playing, current_priority, current_audio,
                   last_murattal, mixer, pc, item>>
    /\ UNCHANGED <<now, enabled, alarm_enabled, sched_running, restarts>>
    /\ UNCHANGED apiVars

\* "while self.running" is false: the thread of a stopped scheduler ends
RunnerExit(r) ==
    /\ r \in Insts
    /\ rpc[r] = "idle"
    /\ ~sched_running[r]
    /\ rpc' = [rpc EXCEPT ![r] = "off"]
    /\ UNCHANGED <<playerVars, now, enabled, alarm_enabled, flags,
                   sched_running, sched_lock, nextRun, rctx, restarts, h_sched>>
    /\ UNCHANGED apiVars

(***************************************************************************)
(* app.force_restart_scheduler, as the watchdog calls it                   *)
(***************************************************************************)
force_restart_scheduler ==
    LET old == 1 + restarts
        new == 2 + restarts
    IN
    /\ restarts < MaxRestarts
    /\ sched_running[old]
    /\ restarts' = restarts + 1
    \* prayer_scheduler.stop(): running = False; join(timeout=1.0)
    \* AudioPlayer(): a new queue and a new player thread
    /\ constructed' = [constructed EXCEPT ![new] = TRUE]
    /\ pc' = [pc EXCEPT ![<<new, 1>>] = "get"]
    \* PrayerScheduler(new_audio_player).start(): a new thread whose _run
    \* adds its own check to the shared schedule; the jobs of the stopped
    \* scheduler stay there.  Only "*.flag" files are removed.
    /\ sched_running' = [sched_running EXCEPT ![old] = FALSE, ![new] = TRUE]
    /\ rpc' = [rpc EXCEPT ![new] = "idle"]
    /\ nextRun' = [nextRun EXCEPT ![new] = now + 1]
    /\ UNCHANGED <<playing, current_priority, current_audio, last_murattal,
                   audio_queue, mixer, clock, item, h_player>>
    /\ UNCHANGED <<now, enabled, alarm_enabled, flags, sched_lock, rctx, h_sched>>
    /\ UNCHANGED apiVars

\* one second of wall-clock time passes
Tick ==
    /\ now < h_sched.start + Horizon
    /\ now' = now + 1
    /\ h_sched' = [h_sched EXCEPT !.everySecond =
          @ /\ (now > h_sched.start => h_sched.lastCheck = now)]
    /\ UNCHANGED <<playerVars, enabled, alarm_enabled, flags, sched_running,
                   sched_lock, nextRun, rpc, rctx, restarts>>
    /\ UNCHANGED apiVars

(***************************************************************************)
(* AlarmScheduler._check_one_time_alarms and _trigger_alarm, run by        *)
(* thread r                                                                *)
(***************************************************************************)
\* "if -2 <= time_diff <= 3"
AlarmWindow_late(d) == (0 - 2) <= d /\ d <= 0

AlarmWindow(d) == (0 - 2) <= d /\ d <= 3

\* the rows of get_one_time_alarms_for_today() that pass the window test
AlarmsToTrigger(n) ==
    {al \in Alarms : alarm_enabled[al] /\ AlarmWindow(AlarmTimeOf(al) - n)}

FirstAlarm(S) == CHOOSE al \in S : \A x \in S : AlarmTimeOf(al) <= AlarmTimeOf(x)

\* "current_priority is not None and current_priority < PRIORITY_ALARM"
HigherPlaying(cur) == cur # NoPriority /\ cur < PRIORITY_ALARM

\* _check_one_time_alarms up to the first alarm in the window and, for it,
\* _trigger_alarm up to get_current_priority()
AlarmCheckBegin(r) ==
    LET S == AlarmsToTrigger(now) IN
    /\ rpc[r] = "idle"
    /\ Due(0)
    /\ IF S = {}
       THEN /\ nextRun' = Rescheduled(0)
            /\ UNCHANGED <<rpc, rctx, h_sched>>
       ELSE /\ rpc' = [rpc EXCEPT ![r] = "trig_stop"]
            /\ rctx' = [rctx EXCEPT ![r] = [NoCtx EXCEPT
                  !.alarm = FirstAlarm(S),
                  !.todo = S \ {FirstAlarm(S)},
                  !.higher = HigherPlaying(current_priority[1]),
                  !.job = 0]]
            /\ h_sched' = [h_sched EXCEPT
                  !.triggers[FirstAlarm(S)] = Min2(@ + 1, 2)]
            /\ UNCHANGED nextRun
    /\ UNCHANGED <<playerVars, now, enabled, alarm_enabled, flags,
                   sched_running, sched_lock, restarts>>
    /\ UNCHANGED apiVars

\* _trigger_alarm: "self.audio_player.stop(); time.sleep(0.5)" unless audio
\* of higher priority was playing
AlarmTrigStop(r) ==
    /\ rpc[r] = "trig_stop"
    /\ IF rctx[r].higher
       THEN UNCHANGED playerVars
       ELSE stop(1, PRIORITY_ALARM)
    /\ rpc' = [rpc EXCEPT ![r] = "trig_import"]
    /\ UNCHANGED <<now, enabled, alarm_enabled, flags, sched_running,
                   sched_lock, nextRun, rctx, restarts, h_sched>>
    /\ UNCHANGED apiVars

\* _trigger_alarm from "from websocket_server import broadcast_message" on.
\* An exception leaves _check_one_time_alarms and run_pending(): the alarm
\* scheduler's _run has no handler and its thread ends; the prayer
\* scheduler's _run logs it, sleeps a second and goes on.  The job's next_run
\* is not updated.
AlarmTrigRest(r, soundExists) ==
    LET al == rctx[r].alarm
        tts == [priority |-> PRIORITY_ALARM, time |-> clock + 1,
                kind |-> "tts", data |-> "alarm"]
        snd == [priority |-> PRIORITY_ALARM, time |-> clock + 2,
                kind |-> "file", data |-> "alarm"]
    IN
    /\ rpc[r] = "trig_import"
    /\ IF BroadcastMessageImportable /\ AlarmHasSmartAlarm
       THEN \* play_tts when the sound file is missing, play_alarm; back in
            \* _check_one_time_alarms: alarm.enabled = False; update_alarm;
            \* the loop goes on with the next row in the window
            /\ audio_queue' = [audio_queue EXCEPT ![1] =
                  @ \cup (IF soundExists THEN {snd} ELSE {tts, snd})]
            /\ clock' = clock + 2
            /\ h_player' = [h_player EXCEPT
                  !.rival = @ \/ Outranks(1, PRIORITY_ALARM),
                  !.stopped = @ \ {1}]
            /\ alarm_enabled' = [alarm_enabled EXCEPT ![al] = FALSE]
            /\ IF rctx[r].todo = {}
               THEN /\ nextRun' = Rescheduled(0)
                    /\ rpc' = BackInLoop(r)
                    /\ rctx' = [rctx EXCEPT ![r] = NoCtx]
                    /\ h_sched' = [h_sched EXCEPT
                          !.alarmPuts[al] = Min2(@ + 1, 2)]
               ELSE /\ rpc' = [rpc EXCEPT ![r] = "trig_stop"]
                    /\ rctx' = [rctx EXCEPT ![r] = [NoCtx EXCEPT
                          !.alarm = FirstAlarm(rctx[r].todo),
                          !.todo = rctx[r].todo \ {FirstAlarm(rctx[r].todo)},
                          !.higher = HigherPlaying(current_priority[1]),
                          !.job = 0]]
                    /\ h_sched' = [h_sched EXCEPT
                          !.alarmPuts[al] = Min2(@ + 1, 2),
                          !.triggers[FirstAlarm(rctx[r].todo)] = Min2(@ + 1, 2)]
                    /\ UNCHANGED nextRun
       ELSE /\ rpc' = [rpc EXCEPT ![r] = IF r = 0 THEN "dead" ELSE "idle"]
            /\ rctx' = [rctx EXCEPT ![r] = NoCtx]
            /\ h_sched' = [h_sched EXCEPT !.raised = TRUE]
            /\ UNCHANGED <<audio_queue, clock, h_player, alarm_enabled,
                           nextRun>>
    /\ UNCHANGED <<constructed, playing, current_priority, current_audio,
                   last_murattal, mixer, pc, item>>
    /\ UNCHANGED <<now, enabled, flags, sched_running, sched_lock, restarts>>
    /\ UNCHANGED apiVars

(***************************************************************************)
(* AlarmScheduler.start / stop / schedule_alarm / remove_alarm as called   *)
(* by a thread c (the thread that runs start_schedulers, a Flask request   *)
(* thread).  self.lock is a threading.Lock: it is not reentrant, so a      *)
(* thread that holds it and acquires it again waits for a release that     *)
(* only itself could make.                                                 *)
(***************************************************************************)
Callers == {1, 2}

\* the weekdays of alarm.days (two of the seven)
Days == {"monday", "friday"}

NoCall == [op |-> "none", id |-> 0, jobs |-> {}, result |-> {}]

\* _schedule_alarm_internal: the keys "<id>_<day>" it adds to scheduled_jobs
\* for an alarm with the given enabled, repeating and days
JobsFor(id, en, rep, days) ==
    IF en /\ rep THEN {<<id, d>> : d \in days} ELSE {}

\* _load_alarms: get_enabled_alarms() and _schedule_alarm_internal for each
JobsOfDatabase ==
    UNION {JobsFor(al, alarm_enabled[al], alarm_repeating[al], alarm_days[al])
              : al \in Alarms}

\* remove_alarm: the keys that start with "<id>_"
KeysOf(id, jobs) == {k \in jobs : k[1] = id}

\* what a call of the AlarmScheduler API leaves alone
SchedFrame ==
    UNCHANGED <<playerVars, now, enabled, alarm_enabled, flags, sched_running,
                sched_lock, nextRun, rpc, rctx, restarts, h_sched>>

\* start(): "if self.running: return"; running = True; the thread is started;
\* then _load_alarms() is called
as_start(c) ==
    /\ cpc[c] = "idle"
    /\ IF as_running
       THEN UNCHANGED <<as_running, cpc, cctx>>
       ELSE /\ as_running' = TRUE
            /\ cpc' = [cpc EXCEPT ![c] = "load_alarms"]
            /\ cctx' = [cctx EXCEPT ![c] = [NoCall EXCEPT !.op = "start"]]
    /\ UNCHANGED <<alarm_repeating, alarm_days, alarm_lock, scheduled_jobs,
                   alarm_jobs>>
    /\ SchedFrame

\* _load_alarms: "with self.lock:" is entered; next is self._clear_jobs()
load_alarms(c) ==
    /\ cpc[c] = "load_alarms"
    /\ alarm_lock = Unlocked
    /\ alarm_lock' = c
    /\ cpc' = [cpc EXCEPT ![c] = "clear_jobs"]
    /\ UNCHANGED <<alarm_repeating, alarm_days, as_running, scheduled_jobs,
                   alarm_jobs, cctx>>
    /\ SchedFrame

\* stop(): running = False; join; then _clear_jobs() is called
as_stop(c) ==
    /\ cpc[c] = "idle"
    /\ as_running' = FALSE
    /\ cpc' = [cpc EXCEPT ![c] = "clear_jobs"]
    /\ cctx' = [cctx EXCEPT ![c] = [NoCall EXCEPT !.op = "stop"]]
    /\ UNCHANGED <<alarm_repeating, alarm_days, alarm_lock, scheduled_jobs,
                   alarm_jobs>>
    /\ SchedFrame

\* _clear_jobs: "with self.lock:" (waits while the lock is held, by whomever),
\* cancel every job, scheduled_jobs = {}, release.  Called from stop() the
\* call returns.  Called from _load_alarms the rest of _load_alarms follows:
\* the jobs of the enabled alarms are scheduled, and leaving the outer "with"
\* releases a lock that is no longer held, which raises RuntimeError.
clear_jobs(c) ==
    /\ cpc[c] = "clear_jobs"
    /\ alarm_lock = Unlocked
    /\ IF cctx[c].op = "stop"
       THEN /\ scheduled_jobs' = {}
            /\ alarm_jobs' = alarm_jobs \ scheduled_jobs
            /\ cpc' = [cpc EXCEPT ![c] = "returned"]
            /\ cctx' = [cctx EXCEPT ![c].result = {}]
       ELSE /\ scheduled_jobs' = JobsOfDatabase
            /\ alarm_jobs' = (alarm_jobs \ scheduled_jobs) \cup JobsOfDatabase
            /\ cpc' = [cpc EXCEPT ![c] = "raised"]
            /\ cctx' = [cctx EXCEPT ![c].result = JobsOfDatabase]
    /\ UNCHANGED <<alarm_repeating, alarm_days, as_running, alarm_lock>>
    /\ SchedFrame

\* schedule_alarm(alarm): "with self.lock:" is entered; next is
\* self.remove_alarm(alarm.id).  The alarm is the caller's object.
schedule_alarm(c, id, en, rep, days) ==
    /\ cpc[c] = "idle"
    /\ alarm_lock = Unlocked
    /\ alarm_lock' = c
    /\ cpc' = [cpc EXCEPT ![c] = "remove_alarm"]
    /\ cctx' = [cctx EXCEPT ![c] = [NoCall EXCEPT
          !.op = "schedule_alarm",
          !.id = id,
          !.jobs = JobsFor(id, en, rep, days)]]
    /\ UNCHANGED <<alarm_repeating, alarm_days, as_running, scheduled_jobs,
                   alarm_jobs>>
    /\ SchedFrame

\* remove_alarm(alarm_id) called by a route of app.py
remove_alarm_call(c, id) ==
    /\ cpc[c] = "idle"
    /\ cpc' = [cpc EXCEPT ![c] = "remove_alarm"]
    /\ cctx' = [cctx EXCEPT ![c] = [NoCall EXCEPT
          !.op = "remove_alarm", !.id = id]]
    /\ UNCHANGED <<alarm_repeating, alarm_days, as_running, alarm_lock,
                   scheduled_jobs, alarm_jobs>>
    /\ SchedFrame

\* remove_alarm: "with self.lock:" (waits while the lock is held), cancel and
\* delete the jobs of the id, release.  Called from schedule_alarm the rest
\* of schedule_alarm follows: _schedule_alarm_internal(alarm), and leaving
\* the outer "with" releases a lock that is no longer held (RuntimeError).
remove_alarm(c) ==
    LET id == cctx[c].id
        kept == scheduled_jobs \ KeysOf(id, scheduled_jobs)
        live == alarm_jobs \ KeysOf(id, scheduled_jobs)
    IN
    /\ cpc[c] = "remove_alarm"
    /\ alarm_lock = Unlocked
    /\ IF cctx[c].op = "remove_alarm"
       THEN /\ scheduled_jobs' = kept
            /\ alarm_jobs' = live
            /\ cpc' = [cpc EXCEPT ![c] = "returned"]
            /\ cctx' = [cctx EXCEPT ![c].result = KeysOf(id, kept)]
       ELSE /\ scheduled_jobs' = kept \cup cctx[c].jobs
            /\ alarm_jobs' = live \cup cctx[c].jobs
            /\ cpc' = [cpc EXCEPT ![c] = "raised"]
            /\ cctx' = [cctx EXCEPT
                  ![c].result = KeysOf(id, kept \cup cctx[c].jobs)]
    /\ UNCHANGED <<alarm_repeating, alarm_days, as_running, alarm_lock>>
    /\ SchedFrame

\* the call has returned to its caller
Return(c) ==
    /\ cpc[c] = "returned"
    /\ cpc' = [cpc EXCEPT ![c] = "idle"]
    /\ cctx' = [cctx EXCEPT ![c] = NoCall]
    /\ UNCHANGED <<alarm_repeating, alarm_days, as_running, alarm_lock,
                   scheduled_jobs, alarm_jobs>>
    /\ SchedFrame

\* no thread is calling the AlarmScheduler (its calls are the subject of
\* SpecSched)
InitApiOff ==
    /\ alarm_repeating = [al \in Alarms |-> FALSE]
    /\ alarm_days = [al \in Alarms |-> {}]
    /\ as_running = FALSE
    /\ alarm_lock = Unlocked
    /\ scheduled_jobs = {}
    /\ alarm_jobs = {}
    /\ cpc = [c \in Callers |-> "idle"]
    /\ cctx = [c \in Callers |-> NoCall]

(***************************************************************************)
(* The audio player with its callers                                       *)
(***************************************************************************)
InitPlayer ==
    /\ constructed = [a \in Insts |-> a = 1]
    /\ playing = [a \in Insts |-> FALSE]
    /\ current_priority = [a \in Insts |-> NoPriority]
    /\ current_audio = [a \in Insts |-> None]
    /\ last_murattal = [a \in Insts |-> None]
    /\ audio_queue = [a \in Insts |-> {}]
    /\ mixer = NoItem
    /\ clock = 0
    /\ pc = [t \in PThreads |-> IF t = <<1, 1>> THEN "get" ELSE "off"]
    /\ item = [t \in PThreads |-> NoItem]
    /\ h_player = HPlayer0

\* an AudioPlayer whose schedulers are not started (no prayer and no alarm
\* is due while the behaviour lasts)
InitSchedOff ==
    /\ now = 0
    /\ enabled = [p \in PrayerNames |-> FALSE]
    /\ alarm_enabled = [al \in Alarms |-> FALSE]
    /\ flags = {}
    /\ sched_running = [i \in Insts |-> FALSE]
    /\ sched_lock = [i \in Insts |-> Unlocked]
    /\ nextRun = [j \in Jobs |-> NoRun]
    /\ rpc = [r \in Runners |-> "off"]
    /\ rctx = [r \in Runners |-> NoCtx]
    /\ restarts = 0
    /\ h_sched = HSched0
    /\ InitApiOff

Init == InitPlayer /\ InitSchedOff

Enqueue ==
    \E a \in Insts :
        \/ play_adhan(a)
        \/ play_pre_adhan(a)
        \/ play_tahrim(a)
        \/ \E k \in {"file", "tts"} : play_alarm(a, k)
        \/ play_push_to_talk(a)
        \/ play_murattal(a)
        \/ \E k \in {"file", "tts"}, p \in ClientPriorities :
              process_audio_message_play(a, k, p)

PlayerThread ==
    \E t \in PThreads :
        \/ Get(t)
        \/ Lock(t)
        \/ \E ok \in BOOLEAN : Play(t, ok)
        \/ Wait(t)
        \/ Done(t)

Next ==
    \/ Enqueue
    \/ PlayerThread
    \/ MusicEnds
    \/ \E a \in Insts : ptt_start(a)
    \/ \E a \in Insts : stop_audio(a)
    \/ \E a \in Insts : start_player_thread(a)

Spec == Init /\ [][Next]_vars

(***************************************************************************)
(* The prayer scheduler: app.start_schedulers() has run at a time `start`  *)
(* shortly before a prayer time or a pre-adhan time; no one-time alarm is  *)
(* in the database, so _check_one_time_alarms finds nothing to do.         *)
(***************************************************************************)
PrayerStartTimes ==
    {PrayerTimeOf("Fajr") - d : d \in {1, 4, 303, 603}}

InitPrayer ==
    /\ InitPlayer
    /\ now \in PrayerStartTimes
    /\ enabled \in [PrayerNames -> BOOLEAN]
    /\ alarm_enabled = [al \in Alarms |-> FALSE]
    /\ flags = {}
    /\ sched_running = [i \in Insts |-> i = 1]
    /\ sched_lock = [i \in Insts |-> Unlocked]
    /\ nextRun = [j \in Jobs |-> IF j = 1 THEN now + 1 ELSE NoRun]
    /\ rpc = [r \in Runners |-> IF r \in {0, 1} THEN "idle" ELSE "off"]
    /\ rctx = [r \in Runners |-> NoCtx]
    /\ restarts = 0
    /\ h_sched = [HSched0 EXCEPT !.start = now]
    /\ InitApiOff

PrayerNext ==
    \/ \E r \in Runners, i \in Insts : CheckBegin(r, i)
    \/ \E r \in Runners, fileExists \in BOOLEAN : CheckPlay(r, fileExists)
    \/ \E r \in Runners : RunnerExit(r)
    \/ force_restart_scheduler
    \/ Tick
    \/ PlayerThread
    \/ MusicEnds

SpecPrayer == InitPrayer /\ [][PrayerNext]_vars

(***************************************************************************)
(* The alarm scheduler: app.start_schedulers() has run shortly before the  *)
(* time of a one-time alarm; no prayer is upcoming, so the prayer check    *)
(* returns at "No upcoming prayers found".                                 *)
(***************************************************************************)
InitAlarm ==
    /\ InitPlayer
    /\ now = AlarmTimeOf(1) - 4
    /\ enabled = [p \in PrayerNames |-> FALSE]
    /\ alarm_enabled \in [Alarms -> BOOLEAN]
    /\ flags = {}
    /\ sched_running = [i \in Insts |-> i = 1]
    /\ sched_lock = [i \in Insts |-> Unlocked]
    /\ nextRun = [j \in Jobs |-> IF j = 0 THEN now + 1 ELSE NoRun]
    /\ rpc = [r \in Runners |-> IF r \in {0, 1} THEN "idle" ELSE "off"]
    /\ rctx = [r \in Runners |-> NoCtx]
    /\ restarts = 0
    /\ h_sched = [HSched0 EXCEPT !.start = now]
    /\ InitApiOff

AlarmNext ==
    \/ \E r \in Runners : AlarmCheckBegin(r)
    \/ \E r \in Runners : AlarmTrigStop(r)
    \/ \E r \in Runners, soundExists \in BOOLEAN : AlarmTrigRest(r, soundExists)
    \/ Tick
    \/ \E a \in Insts : play_adhan(a)
    \/ \E a \in Insts : play_murattal(a)
    \/ PlayerThread
    \/ MusicEnds

SpecAlarm == InitAlarm /\ [][AlarmNext]_vars

(***************************************************************************)
(* The AlarmScheduler API: an AlarmScheduler as constructed (no job         *)
(* scheduled, not running), any rows in the alarms table, and threads that *)
(* call start, stop, schedule_alarm and remove_alarm.  The audio player    *)
(* and the scheduler threads take no step.                                 *)
(***************************************************************************)
InitSched ==
    /\ InitPlayer
    /\ now = 0
    /\ enabled = [p \in PrayerNames |-> FALSE]
    /\ alarm_enabled \in [Alarms -> BOOLEAN]
    /\ flags = {}
    /\ sched_running = [i \in Insts |-> FALSE]
    /\ sched_lock = [i \in Insts |-> Unlocked]
    /\ nextRun = [j \in Jobs |-> NoRun]
    /\ rpc = [r \in Runners |-> "off"]
    /\ rctx = [r \in Runners |-> NoCtx]
    /\ restarts = 0
    /\ h_sched = HSched0
    /\ alarm_repeating \in [Alarms -> BOOLEAN]
    /\ alarm_days \in [Alarms -> SUBSET Days]
    /\ as_running = FALSE
    /\ alarm_lock = Unlocked
    /\ scheduled_jobs = {}
    /\ alarm_jobs = {}
    /\ cpc = [c \in Callers |-> "idle"]
    /\ cctx = [c \in Callers |-> NoCall]

SchedNext ==
    \/ \E c \in Callers : as_start(c)
    \/ \E c \in Callers : load_alarms(c)
    \/ \E c \in Callers : as_stop(c)
    \/ \E c \in Callers : clear_jobs(c)
    \/ \E c \in Callers, id \in Alarms, en \in BOOLEAN, rep \in BOOLEAN,
          days \in SUBSET Days :
          schedule_alarm(c, id, en, rep, days)
    \/ \E c \in Callers, id \in Alarms : remove_alarm_call(c, id)
    \/ \E c \in Callers : remove_alarm(c)
    \/ \E c \in Callers : Return(c)

SpecSched == InitSched /\ [][SchedNext]_vars

(***************************************************************************)
(* Properties of the audio player (specification Spec)                     *)
(***************************************************************************)
\* a player thread has just taken a tuple from the queue
Dequeues(t) == pc[t] = "get" /\ pc'[t] = "lock"

\* the player has nothing to play and nothing to do until the next put()
Quiescent(a) ==
    /\ ~playing[a]
    /\ audio_queue[a] = {}
    /\ mixer = NoItem
    /\ \A t \in PThreads : t[1] = a => pc[t] \in {"get", "off"}

C2_InterruptsLowerPriority == [][MusicEnds => ~h_player.rival]_vars

\* C3: a murattal that was cut short by a sound of higher priority is played
\* again after that sound has finished, without a new play request: the
\* player never comes to rest with the murattal still cut.
C3_MurattalResumed == ~(h_player.murPhase = "after" /\ Quiescent(1))

\* C3 (amended): a murattal is played only for a play_murattal() request of
\* its own, so a murattal that was cut short stays silent until a new request
\* is enqueued; the player only keeps last_murattal.
C3_MurattalNeedsRequest ==
    /\ h_player.murPlay <= h_player.murReq
    /\ h_player.murReq > 0 => last_murattal[1] = "murattal"

\* the murattal was played once and cut short, the sound of higher priority
\* has finished, and the player is at rest
C3_Witness ==
    /\ h_player.murPhase = "after"
    /\ h_player.murPlay = 1
    /\ Quiescent(1)

\* an adhan-priority request is pending in queue q
HasAdhan(q) == \E x \in q : x.priority = PRIORITY_ADHAN

\* C4: playback is never stopped on behalf of a source of lower priority: a
\* 'ptt_start' message (priority 5) never ends the playback of a sound of
\* smaller priority number and never removes a pending adhan-priority request
\* from the queue.
C4_NoStopByLowerPriority ==
    [][\A a \in Insts : ptt_start(a) =>
          /\ ~(/\ playing[a]
               /\ mixer # NoItem
               /\ current_priority[a] = mixer.priority
               /\ current_priority[a] < PRIORITY_PUSH_TO_TALK
               /\ mixer' = NoItem)
          /\ ~(HasAdhan(audio_queue[a]) /\ ~HasAdhan(audio_queue'[a]))]_vars

\* C5: whenever an adhan request is pending together with other requests, the
\* request a player thread dequeues is an adhan request.
C5_AdhanFirst ==
    [][\A t \in PThreads :
          (Dequeues(t) /\ \E x \in audio_queue[t[1]] : x.data = "adhan")
             => item'[t].data = "adhan"]_vars

(***************************************************************************)
(* Properties of the prayer scheduler (specification SpecPrayer)           *)
(***************************************************************************)
Abs(x) == IF x < 0 THEN 0 - x ELSE x

\* C6: for every enabled prayer whose time T was in the future when the
\* scheduler was started, if a prayer check was made in every second, a
\* priority-1 request was enqueued by a check made within 3 seconds of T.
C6_AdhanWithin3s ==
    \A p \in PrayerNames :
        (/\ enabled[p]
         /\ PrayerTimeOf(p) > h_sched.start
         /\ now > PrayerTimeOf(p)
         /\ h_sched.everySecond)
        => /\ h_sched.adhanAt[p] # NoRun
           /\ Abs(h_sched.adhanAt[p] - PrayerTimeOf(p)) <= 3

\* C7: the adhan of a prayer is enqueued at most once.
C7_AdhanAtMostOnce == \A p \in PrayerNames : h_sched.adhanPuts[p] <= 1

\* C8: a check that runs up to 30 seconds after the time of a prayer whose
\* ".played" flag does not exist plays the adhan of that prayer.
C8_LateCheckPlays == h_sched.lateSkipped = {}

(***************************************************************************)
(* Properties of the alarm scheduler (specification SpecAlarm)             *)
(***************************************************************************)
\* no thread is inside _trigger_alarm for alarm al
NotTriggering(al) ==
    \A r \in Runners :
        rpc[r] \in {"trig_stop", "trig_import"} => rctx[r].alarm # al

\* C9: every one-time alarm is triggered at most once.
C9_TriggeredOnce == \A al \in Alarms : h_sched.triggers[al] <= 1

\* C10: a _trigger_alarm call for an alarm in the window returns without
\* raising and leaves an alarm-priority request for that alarm on the queue.
C10_TriggerQueuesAlarm ==
    /\ ~h_sched.raised
    /\ \A al \in Alarms :
          (h_sched.triggers[al] > 0 /\ NotTriggering(al))
             => h_sched.alarmPuts[al] > 0

\* C11: an alarm trigger never stops adhan, pre-adhan or tahrim playback:
\* the step of _trigger_alarm that decides about stop() never silences a
\* sounding playback of priority number below PRIORITY_ALARM, whatever the
\* player thread did since get_current_priority() was read.
C11_AlarmNeverStopsHigher ==
    [][\A r \in Runners : AlarmTrigStop(r) =>
          ~(/\ mixer # NoItem
            /\ playing[1]
            /\ current_priority[1] = mixer.priority
            /\ current_priority[1] < PRIORITY_ALARM
            /\ mixer' = NoItem)]_vars

(***************************************************************************)
(* Properties of stop() and of the player threads (specification Spec)     *)
(***************************************************************************)
\* player a has nothing that plays or will play without a new request: its
\* queue is empty, none of its threads holds a dequeued request it has yet
\* to play, and none of its threads has audio sounding
NothingToPlay(a) ==
    /\ audio_queue[a] = {}
    /\ \A t \in PThreads : t[1] = a =>
          /\ pc[t] \notin {"lock", "play"}
          /\ ~(pc[t] = "wait" /\ mixer # NoItem /\ mixer = item[t])

\* C12: after stop() has returned, and until a request is enqueued, no audio
\* is playing, the queue is empty and nothing is about to start playing.
C12_StopLeavesNothingToPlay ==
    \A a \in h_player.stopped : NothingToPlay(a)

\* the threads of player a that are in the playback phase of a dequeued
\* request: past the block that sets self.playing, not yet past the wait for
\* the mixer
InPlayback(a) == {t \in PThreads : t[1] = a /\ pc[t] \in {"play", "wait"}}

\* C15: at most one dequeued request of a player is in its playback phase at
\* any time, also after start_player_thread() has been called again.
C15_OnePlaybackAtATime == \A a \in Insts : Cardinality(InPlayback(a)) <= 1

(***************************************************************************)
(* Properties of the AlarmScheduler API (specification SpecSched)          *)
(***************************************************************************)
\* thread c waits for self.lock while it holds self.lock itself: nothing
\* can release the lock, so the call c is in never returns
SelfDeadlocked(c) ==
    /\ cpc[c] \in {"clear_jobs", "remove_alarm"}
    /\ alarm_lock = c

\* C13: AlarmScheduler.start() returns (its caller does not come to wait for
\* a lock it holds, and no exception ends the call), and when it returns
\* scheduled_jobs holds one job per selected weekday of every enabled
\* repeating alarm of the database.
C13_StartReturnsWithJobs ==
    \A c \in Callers : cctx[c].op = "start" =>
        /\ ~SelfDeadlocked(c)
        /\ cpc[c] # "raised"
        /\ cpc[c] = "returned" => cctx[c].result = JobsOfDatabase

\* C14: schedule_alarm(alarm) returns (its caller does not come to wait for a
\* lock it holds, and no exception ends the call), and when it returns
\* scheduled_jobs holds for alarm.id exactly one job per selected weekday if
\* the alarm is enabled and repeating, and none otherwise.
C14_ScheduleAlarmReturnsWithJobs ==
    \A c \in Callers : cctx[c].op = "schedule_alarm" =>
        /\ ~SelfDeadlocked(c)
        /\ cpc[c] # "raised"
        /\ cpc[c] = "returned" => cctx[c].result = cctx[c].jobs

====
